---- MODULE Spec2Model ----
(***************************************************************************)
(* Model of app.py: the table-detection and consolidation engine           *)
(* (norm_cell, norm_key, looks_header_row, to_float_br, is_blank_row,      *)
(* is_candidate_title, find_title_near, parse_blocks, consolidate) and the *)
(* batch loop over the uploaded files.                                     *)
(*                                                                         *)
(* Text.  A Python str is a sequence of characters; each character is a    *)
(* one-element TLA+ string.  Characters outside ASCII are written as named *)
(* tokens: "NBSP" (U+00A0), "TAB", and the accented letters "Oacute" (Ó),  *)
(* "Ccedil" (Ç), "Atilde" (Ã), "oacute" (ó), "ccedil" (ç), "atilde" (ã).   *)
(* The two non-str values a DataFrame cell can hold are None and NaN.      *)
(*                                                                         *)
(* Numbers.  A Python float is [k |-> "num", v |-> n] with n the value in  *)
(* hundredths, or [k |-> "nan"], or [k |-> "inf", neg |-> b].              *)
(*                                                                         *)
(* Column indices are 0-based as in the source; row[c + 1] is Python's     *)
(* row[c].                                                                 *)
(***************************************************************************)
EXTENDS Integers, Sequences, FiniteSets, TLC

VARIABLES
    pc,             \* which function is running and where it is
    hdr_row,        \* looks_header_row: the argument row
    hdr_i,          \* looks_header_row: the column index of the enumerate loop
    found,          \* looks_header_row: the dict found
    hdr_ret,        \* looks_header_row: the returned value
    df_raw,         \* parse_blocks: the argument grid, df_raw.values.tolist()
    fallback_title, \* parse_blocks: the fallback_title argument
    ps,             \* parse_blocks: the locals matrix, max_cols, i, bloco_n, mapping, title,
                    \*   blank_streak, rows_out, the loop it is in (at), and the history
                    \*   src_rows: the grid row each element of rows_out was read from
    df_detail,      \* consolidate: the argument rows
    cs,             \* consolidate: the locals agg, order and the iterrows position
    df_cons,        \* consolidate: the returned records
    files,          \* batch loop: the uploaded files
    bs              \* batch loop: the loop position, all_detail, the reported errors

vars == <<pc, hdr_row, hdr_i, found, hdr_ret, df_raw, fallback_title, ps,
          df_detail, cs, df_cons, files, bs>>

-----------------------------------------------------------------------------
(* Bounds *)

MaxCols == 6
MaxRows == 4
MaxDetail == 2
MaxFiles == 2

-----------------------------------------------------------------------------
(* Characters and strings *)

None == <<"<None>">>
NaN == <<"<NaN>">>

UpperOf == [a |-> "A", b |-> "B", c |-> "C", d |-> "D", e |-> "E", f |-> "F",
            g |-> "G", h |-> "H", i |-> "I", j |-> "J", k |-> "K", l |-> "L",
            m |-> "M", n |-> "N", o |-> "O", p |-> "P", q |-> "Q", r |-> "R",
            s |-> "S", t |-> "T", u |-> "U", v |-> "V", w |-> "W", x |-> "X",
            y |-> "Y", z |-> "Z",
            oacute |-> "Oacute", ccedil |-> "Ccedil", atilde |-> "Atilde"]

BaseOf == [Oacute |-> "O", Ccedil |-> "C", Atilde |-> "A",
           oacute |-> "o", ccedil |-> "c", atilde |-> "a"]

AsciiUpper == {"A", "B", "C", "D", "E", "F", "G", "H", "I", "J", "K", "L", "M",
               "N", "O", "P", "Q", "R", "S", "T", "U", "V", "W", "X", "Y", "Z"}
AsciiLower == {"a", "b", "c", "d", "e", "f", "g", "h", "i", "j", "k", "l", "m",
               "n", "o", "p", "q", "r", "s", "t", "u", "v", "w", "x", "y", "z"}
Accented == {"Oacute", "Ccedil", "Atilde", "oacute", "ccedil", "atilde"}
DigitVal == [c \in {"0", "1", "2", "3", "4", "5", "6", "7", "8", "9"} |->
               CASE c = "0" -> 0 [] c = "1" -> 1 [] c = "2" -> 2 [] c = "3" -> 3
                 [] c = "4" -> 4 [] c = "5" -> 5 [] c = "6" -> 6 [] c = "7" -> 7
                 [] c = "8" -> 8 [] c = "9" -> 9]
Digits == DOMAIN DigitVal
Whitespace == {" ", "TAB", "NBSP"}
Letters == AsciiUpper \cup AsciiLower \cup Accented
WordChars == Letters \cup Digits \cup {"_"}
KeyChars == AsciiUpper \cup Digits
HasUpper == DOMAIN UpperOf
HasBase == DOMAIN BaseOf

\* Python evaluates an argument once, before the call: F(x) with x evaluated first
Call(F(_), x) == CHOOSE y \in {F(v) : v \in {x}} : TRUE

\* [f(s[1]), ..., f(s[n])]
MapSeq(s, F(_)) == [j \in 1..Len(s) |-> F(s[j])]

\* Python: sub in s
Contains(sub, s) ==
    \E j \in 0..(Len(s) - Len(sub)) : SubSeq(s, j + 1, j + Len(sub)) = sub

\* Python: s.replace(old, "") and s.replace(old, new) for a one-character old
ReplaceChar(s, old, new) == MapSeq(s, LAMBDA c : IF c = old THEN new ELSE c)
DropChar(s, old) == SelectSeq(s, LAMBDA c : c # old)

\* Python: s.strip(): the text from its first to its last non-whitespace character
Strip(s) ==
    LET ink == {j \in 1..Len(s) : s[j] \notin Whitespace}
    IN IF ink = {} THEN <<>>
       ELSE SubSeq(s, CHOOSE j \in ink : \A m \in ink : j <= m,
                      CHOOSE j \in ink : \A m \in ink : m <= j)

\* Python: re.sub(r"\s+", " ", s): each maximal run of whitespace becomes one space,
\* i.e. a whitespace character that follows another one is dropped and the others
\* become " "
CollapseWs(s) ==
    LET kept == SelectSeq([j \in 1..Len(s) |-> j],
                          LAMBDA j : s[j] \notin Whitespace \/ j = 1 \/ s[j - 1] \notin Whitespace)
    IN [m \in 1..Len(kept) |-> IF s[kept[m]] \in Whitespace THEN " " ELSE s[kept[m]]]

\* Python: str(x)
Str(x) == IF x = NaN THEN <<"n", "a", "n">> ELSE IF x = None THEN <<"N", "o", "n", "e">> ELSE x

\* Python: s.upper()
Upper(s) == MapSeq(s, LAMBDA c : IF c \in HasUpper THEN UpperOf[c] ELSE c)

strip_accents(s) ==
    MapSeq(Str(s), LAMBDA c : IF c \in HasBase THEN BaseOf[c] ELSE c)

norm_cell(x) ==
    IF x = None THEN <<>>
    ELSE Call(CollapseWs, Call(Strip, ReplaceChar(Str(x), "NBSP", " ")))

norm_key(s) ==
    LET u == Call(Upper, Call(strip_accents, Call(norm_cell, s)))
        nodot == DropChar(u, ".")
    IN SelectSeq(nodot, LAMBDA c : c \in KeyChars)

-----------------------------------------------------------------------------
(* Header matcher *)

CANON_HEADERS == <<"ITEM", "COD. BK", "COD. CLIENTE", "DESCRICAO", "QUANT.", "UN.">>

HDR_KEYS ==
    [h \in {"ITEM", "COD. BK", "COD. CLIENTE", "DESCRICAO", "QUANT.", "UN."} |->
       CASE h = "ITEM" -> {<<"I", "T", "E", "M">>}
         [] h = "COD. BK" -> {<<"C", "O", "D", "B", "K">>,
                              <<"C", "O", "D", "I", "G", "O", "B", "K">>,
                              <<"C", "D", "B", "K">>}
         [] h = "COD. CLIENTE" -> {<<"C", "O", "D", "C", "L", "I", "E", "N", "T", "E">>,
                                   <<"C", "O", "D", "I", "G", "O", "C", "L", "I", "E", "N", "T", "E">>,
                                   <<"C", "D", "C", "L", "I", "E", "N", "T", "E">>}
         [] h = "DESCRICAO" -> {<<"D", "E", "S", "C", "R", "I", "C", "A", "O">>,
                                <<"D", "E", "S", "C", "R">>,
                                <<"D", "E", "S", "C", "R", "I">>,
                                <<"M", "A", "T", "E", "R", "I", "A", "L">>,
                                <<"N", "O", "M", "E">>}
         [] h = "QUANT." -> {<<"Q", "U", "A", "N", "T">>,
                             <<"Q", "U", "A", "N", "T", "I", "D", "A", "D", "E">>,
                             <<"Q", "T", "D">>,
                             <<"Q", "T", "D", "E">>}
         [] h = "UN." -> {<<"U", "N">>, <<"U", "N", "D">>, <<"U", "N", "I", "D">>,
                          <<"U", "N", "I", "D", "A", "D", "E">>}]

\* faulty variant: the substring tests without their "h ==" guards
HdrFallback_anyField(h, k) ==
    \/ Contains(<<"D", "E", "S", "C", "R">>, k)
    \/ Contains(<<"Q", "U", "A", "N", "T">>, k) \/ Contains(<<"Q", "T", "D">>, k)
    \/ Contains(<<"B", "K">>, k) /\ Contains(<<"C", "O", "D">>, k)
    \/ Contains(<<"C", "L", "I", "E", "N", "T", "E">>, k) /\ Contains(<<"C", "O", "D">>, k)

\* the "contains fallback" branch of looks_header_row for field h and key k
HdrFallback(h, k) ==
    \/ h = "DESCRICAO" /\ Contains(<<"D", "E", "S", "C", "R">>, k)
    \/ h = "QUANT." /\ (Contains(<<"Q", "U", "A", "N", "T">>, k) \/ Contains(<<"Q", "T", "D">>, k))
    \/ h = "COD. BK" /\ (Contains(<<"B", "K">>, k) /\ Contains(<<"C", "O", "D">>, k))
    \/ h = "COD. CLIENTE" /\ (Contains(<<"C", "L", "I", "E", "N", "T", "E">>, k)
                              /\ Contains(<<"C", "O", "D">>, k))

EmptyDict == [h \in {} |-> 0]
NoMapping == [None |-> TRUE]

\* faulty variant: without "if h in found: continue", a later column overrides an earlier one
HdrScanField_lastWins(fnd, h, k, i) ==
    IF k \in HDR_KEYS[h] THEN (h :> i) @@ fnd
    ELSE IF HdrFallback(h, k) THEN (h :> i) @@ fnd
    ELSE fnd

\* one pass of the loop "for h, variants in HDR_KEYS.items()" body, for key k at column i
HdrScanField(fnd, h, k, i) ==
    IF h \in DOMAIN fnd THEN fnd
    ELSE IF k \in HDR_KEYS[h] THEN (h :> i) @@ fnd
    ELSE IF HdrFallback(h, k) THEN (h :> i) @@ fnd
    ELSE fnd

\* the whole loop over HDR_KEYS.items() for key k at column i.  The pass for field
\* h reads and writes found[h] only, so the passes do not depend on their order and
\* the loop leaves in found what each pass, started from fnd, leaves for its field
HdrScanFields(fnd, k, i) ==
    LET fields == {CANON_HEADERS[n] : n \in 1..Len(CANON_HEADERS)}
        present == {h \in fields : h \in DOMAIN HdrScanField(fnd, h, k, i)}
    IN [h \in present |-> HdrScanField(fnd, h, k, i)[h]]

\* the body of "for i, k in enumerate(keys)"
HdrScanColumn(fnd, row, i) ==
    Call(LAMBDA k : IF k = <<>> THEN fnd ELSE HdrScanFields(fnd, k, i), norm_key(row[i + 1]))

\* the final test and return of looks_header_row
HdrResult(fnd) ==
    IF \A n \in 1..Len(CANON_HEADERS) : CANON_HEADERS[n] \in DOMAIN fnd THEN fnd ELSE NoMapping

\* the loop "for i, k in enumerate(keys)": after[n] is found after the first n columns
HdrLoop(row) ==
    LET after[n \in 0..Len(row)] ==
            IF n = 0 THEN EmptyDict
            ELSE Call(LAMBDA f : HdrScanColumn(f, row, n - 1), after[n - 1])
    IN after[Len(row)]

looks_header_row(row) == Call(HdrResult, Call(HdrLoop, row))

-----------------------------------------------------------------------------
(* Title locator *)

is_blank_row(row) == \A c \in 1..Len(row) : norm_cell(row[c]) = <<>>

\* re.search(r"[A-Za-zA-y]", t): the class A-Z, a-z and the accented range
HasLetter(t) == \E j \in 1..Len(t) : t[j] \in Letters

\* re.fullmatch(r"[0-9\W]+", t): \w is a letter, a digit or the underscore
OnlyDigitsAndNonWord(t) ==
    /\ t # <<>>
    /\ \A j \in 1..Len(t) :
          t[j] \in Digits \/ t[j] \notin WordChars

bad == <<<<"I", "T", "E", "M">>, <<"C", "O", "D">>, <<"C", "Oacute", "D">>,
         <<"C", "L", "I", "E", "N", "T", "E">>, <<"D", "E", "S", "C", "R">>,
         <<"D", "E", "S", "C", "R", "I">>, <<"Q", "U", "A", "N", "T">>, <<"U", "N">>>>

is_candidate_title(text) ==
    Call(LAMBDA t :
           IF Len(t) < 4 THEN FALSE
           ELSE IF ~HasLetter(t) THEN FALSE
           ELSE IF Call(LAMBDA u : \E b \in 1..Len(bad) : Contains(bad[b], u),
                        Upper(strip_accents(t))) THEN FALSE
           ELSE IF OnlyDigitsAndNonWord(t) THEN FALSE
           ELSE TRUE,
         norm_cell(text))

Max(a, b) == IF a >= b THEN a ELSE b
Min(a, b) == IF a <= b THEN a ELSE b

\* the candidates list of find_title_near as the positions <<r, c>> of its elements,
\* which the loops append in row order and, within a row, in column order
TitleCandidates(mat, r0, r1) ==
    {rc \in (r0..r1) \X (0..(IF mat = <<>> THEN -1 ELSE Len(mat[1]) - 1)) :
        is_candidate_title(norm_cell(mat[rc[1] + 1][rc[2] + 1]))}

Before(a, b) == a[1] < b[1] \/ (a[1] = b[1] /\ a[2] < b[2])

\* candidates.sort(reverse=True, key=len)[0]: the sort is stable, so the first
\* appended candidate of the greatest length
LongestFirst(mat, cands) ==
    LET TextAt(rc) == norm_cell(mat[rc[1] + 1][rc[2] + 1])
        first == CHOOSE a \in cands :
                    /\ \A b \in cands : Len(TextAt(b)) <= Len(TextAt(a))
                    /\ \A b \in cands : Before(b, a) => Len(TextAt(b)) < Len(TextAt(a))
    IN TextAt(first)

find_title_near(mat, header_row_idx) ==
    LET r0 == Max(0, header_row_idx - 3)
        r1 == Min(Len(mat) - 1, header_row_idx + 3)
    IN Call(LAMBDA candidates : IF candidates = {} THEN <<>> ELSE LongestFirst(mat, candidates),
            TitleCandidates(mat, r0, r1))

-----------------------------------------------------------------------------
(* Block parser.  The locals of parse_blocks are the record p; p.at is the  *)
(* loop the control is in: "outer" (line 122), "inner" (line 131), "done".  *)

\* lines 114-120
ParseEnter(df) ==
    [matrix |-> [r \in 1..Len(df) |-> MapSeq(df[r], norm_cell)],
     max_cols |-> IF df = <<>> THEN 0 ELSE Len(df[1]),
     i |-> 0, bloco_n |-> 0, mapping |-> NoMapping, title |-> <<>>,
     blank_streak |-> 0, rows_out |-> <<>>, src_rows |-> <<>>, at |-> "outer"]

\* r[mapping[h]] if mapping[h] < max_cols else ""
FieldOf(p, r, h) == IF p.mapping[h] < p.max_cols THEN r[p.mapping[h] + 1] ELSE <<>>

\* line 126: find_title_near(matrix, i) or fallback_title
TitleOr(found_title, fb) == IF found_title # <<>> THEN found_title ELSE fb

\* faulty variant: the block counter is not incremented
OuterHeader_sameBloco(p, fb) ==
    [p EXCEPT !.mapping = looks_header_row(p.matrix[p.i + 1]),
              !.title = TitleOr(find_title_near(p.matrix, p.i), fb),
              !.i = p.i + 1,
              !.blank_streak = 0,
              !.at = "inner"]

\* lines 123-129: the row at i is a header
AtHeader(p) ==
    p.at = "outer" /\ p.i < Len(p.matrix) /\ looks_header_row(p.matrix[p.i + 1]) # NoMapping
OuterHeader(p, fb) ==
    [p EXCEPT !.mapping = looks_header_row(p.matrix[p.i + 1]),
              !.bloco_n = p.bloco_n + 1,
              !.title = TitleOr(find_title_near(p.matrix, p.i), fb),
              !.i = p.i + 1,
              !.blank_streak = 0,
              !.at = "inner"]

\* lines 123, 161: the row at i is not a header
AtSkip(p) ==
    p.at = "outer" /\ p.i < Len(p.matrix) /\ looks_header_row(p.matrix[p.i + 1]) = NoMapping
OuterSkip(p) == [p EXCEPT !.mapping = looks_header_row(p.matrix[p.i + 1]), !.i = p.i + 1]

\* line 122 fails: return
AtReturn(p) == p.at = "outer" /\ p.i >= Len(p.matrix)
OuterReturn(p) == [p EXCEPT !.at = "done"]

\* line 131 fails: the grid ended inside the block (line 159 continues the outer loop)
AtInnerEnd(p) == p.at = "inner" /\ p.i >= Len(p.matrix)
\* lines 133-134: a header row ends the block and is left for the outer loop
AtInnerHeader(p) ==
    p.at = "inner" /\ p.i < Len(p.matrix) /\ looks_header_row(p.matrix[p.i + 1]) # NoMapping
InnerBreak(p) == [p EXCEPT !.at = "outer"]

\* faulty variant: the blank streak never ends the block
InnerBlank_noBreak(p) == [p EXCEPT !.blank_streak = p.blank_streak + 1, !.i = p.i + 1]

\* lines 136-141: a blank row; the second in a row ends the block
AtInnerBlank(p) ==
    /\ p.at = "inner" /\ p.i < Len(p.matrix)
    /\ looks_header_row(p.matrix[p.i + 1]) = NoMapping
    /\ is_blank_row(p.matrix[p.i + 1])
InnerBlank(p) ==
    IF p.blank_streak + 1 >= 2
    THEN [p EXCEPT !.blank_streak = p.blank_streak + 1, !.at = "outer"]
    ELSE [p EXCEPT !.blank_streak = p.blank_streak + 1, !.i = p.i + 1]

\* lines 142-158: a data row
AtInnerData(p) ==
    /\ p.at = "inner" /\ p.i < Len(p.matrix)
    /\ looks_header_row(p.matrix[p.i + 1]) = NoMapping
    /\ ~is_blank_row(p.matrix[p.i + 1])
InnerData(p, fonte_nome, sheet_name) ==
    LET r == p.matrix[p.i + 1]
        desc == FieldOf(p, r, "DESCRICAO")
        rec == [ARQUIVO_EXCEL |-> fonte_nome,
                ABA |-> sheet_name,
                DESENHO |-> p.title,
                BLOCO_TABELA |-> p.bloco_n,
                ITEM |-> FieldOf(p, r, "ITEM"),
                COD_BK |-> FieldOf(p, r, "COD. BK"),
                COD_CLIENTE |-> FieldOf(p, r, "COD. CLIENTE"),
                DESCRICAO |-> desc,
                QUANT |-> FieldOf(p, r, "QUANT."),
                UN |-> FieldOf(p, r, "UN.")]
    IN IF norm_cell(desc) # <<>>
       THEN [p EXCEPT !.blank_streak = 0,
                      !.rows_out = Append(p.rows_out, rec),
                      !.src_rows = Append(p.src_rows, p.i),
                      !.i = p.i + 1]
       ELSE [p EXCEPT !.blank_streak = 0, !.i = p.i + 1]

\* one step of parse_blocks
ParseStep(p, fonte_nome, sheet_name, fb) ==
    CASE AtHeader(p) -> OuterHeader(p, fb)
      [] AtSkip(p) -> OuterSkip(p)
      [] AtReturn(p) -> OuterReturn(p)
      [] AtInnerEnd(p) \/ AtInnerHeader(p) -> InnerBreak(p)
      [] AtInnerBlank(p) -> InnerBlank(p)
      [] AtInnerData(p) -> InnerData(p, fonte_nome, sheet_name)

\* the loops run to the return: after[n] is the locals after n steps; every step
\* either moves i forward or leaves the inner loop for an outer step that moves i
\* forward or returns, so 2 * len(matrix) + 2 steps reach the return
ParseRun(p, fonte_nome, sheet_name, fb) ==
    LET after[n \in 0..(2 * Len(p.matrix) + 2)] ==
            IF n = 0 THEN p
            ELSE Call(LAMBDA q : IF q.at = "done" THEN q
                                 ELSE ParseStep(q, fonte_nome, sheet_name, fb),
                      after[n - 1])
    IN after[2 * Len(p.matrix) + 2].rows_out

parse_blocks(df, fonte_nome, sheet_name, fb) ==
    Call(LAMBDA p : ParseRun(p, fonte_nome, sheet_name, fb), ParseEnter(df))

-----------------------------------------------------------------------------
(* Locale numbers.  The quantity texts of the model are written with digits, a   *)
(* sign, "." and ","; of the other literals float() accepts, "nan", "inf" and    *)
(* "infinity" are modelled, exponents and digit-group underscores are not.       *)

Num(n) == [k |-> "num", v |-> n]
FloatNaN == [k |-> "nan"]
FloatInf(negative) == [k |-> "inf", neg |-> negative]
ParseError == [k |-> "ValueError"]

AllDigits(s) == \A j \in 1..Len(s) : s[j] \in Digits

RECURSIVE DigitsVal(_)
DigitsVal(s) == IF s = <<>> THEN 0 ELSE DigitsVal(SubSeq(s, 1, Len(s) - 1)) * 10 + DigitVal[s[Len(s)]]

\* the value, in hundredths, of the fraction digits s
FracVal(s) ==
    IF s = <<>> THEN 0
    ELSE IF Len(s) = 1 THEN DigitVal[s[1]] * 10
    ELSE DigitVal[s[1]] * 10 + DigitVal[s[2]]

\* digits [ "." [digits] ]  or  "." digits
IsDecimal(s) ==
    LET dots == {j \in 1..Len(s) : s[j] = "."}
    IN /\ Cardinality(dots) <= 1
       /\ AllDigits(DropChar(s, "."))
       /\ DropChar(s, ".") # <<>>

DecimalVal(s) ==
    LET dots == {j \in 1..Len(s) : s[j] = "."}
    IN IF dots = {} THEN DigitsVal(s) * 100
       ELSE LET d == CHOOSE j \in dots : TRUE
            IN DigitsVal(SubSeq(s, 1, d - 1)) * 100 + FracVal(SubSeq(s, d + 1, Len(s)))

\* Python: float(s) for a str s without surrounding whitespace
PyFloat(s) ==
    LET signed == s # <<>> /\ Head(s) \in {"+", "-"}
        negative == s # <<>> /\ Head(s) = "-"
        body == IF signed THEN Tail(s) ELSE s
        word == Upper(body)
    IN IF word = <<"N", "A", "N">> THEN FloatNaN
       ELSE IF word \in {<<"I", "N", "F">>, <<"I", "N", "F", "I", "N", "I", "T", "Y">>}
            THEN FloatInf(negative)
       ELSE IF IsDecimal(body)
            THEN Num(IF negative THEN 0 - DecimalVal(body) ELSE DecimalVal(body))
       ELSE ParseError

\* lines 72-74: spaces out, and a comma is the decimal separator
LocaleText(s) ==
    LET nosp == DropChar(s, " ")
    IN IF \E j \in 1..Len(nosp) : nosp[j] = ","
       THEN ReplaceChar(DropChar(nosp, "."), ",", ".")
       ELSE nosp

to_float_br(x) ==
    LET s == norm_cell(x)
    IN IF s = <<>> THEN Num(0)
       ELSE LET f == PyFloat(LocaleText(s))
            IN IF f = ParseError THEN Num(0) ELSE f

\* Python: a + b on floats
FloatAdd(a, b) ==
    IF a.k = "nan" \/ b.k = "nan" THEN FloatNaN
    ELSE IF a.k = "inf" /\ b.k = "inf" THEN (IF a.neg = b.neg THEN a ELSE FloatNaN)
    ELSE IF a.k = "inf" THEN a
    ELSE IF b.k = "inf" THEN b
    ELSE Num(a.v + b.v)

-----------------------------------------------------------------------------
(* Consolidator.  The locals of consolidate are the record c: agg, order and *)
(* pos, the number of rows iterrows() has delivered.                         *)

\* the characters in code point order
CharOrder ==
    <<"TAB", " ", "+", ",", "-", ".", "/", "0", "1", "2", "3", "4", "5", "6", "7", "8", "9",
      ";", "A", "B", "C", "D", "E", "F", "G", "H", "I", "J", "K", "L", "M", "N", "O", "P",
      "Q", "R", "S", "T", "U", "V", "W", "X", "Y", "Z", "_", "a", "b", "c", "d", "e", "f",
      "g", "h", "i", "j", "k", "l", "m", "n", "o", "p", "q", "r", "s", "t", "u", "v", "w",
      "x", "y", "z", "|", "NBSP", "Atilde", "Ccedil", "Oacute", "atilde", "ccedil", "oacute">>
CodePoint(c) == CHOOSE j \in 1..Len(CharOrder) : CharOrder[j] = c

\* Python: a < b on str
RECURSIVE StrLess(_, _)
StrLess(a, b) ==
    IF b = <<>> THEN FALSE
    ELSE IF a = <<>> THEN TRUE
    ELSE IF Head(a) = Head(b) THEN StrLess(Tail(a), Tail(b))
    ELSE CodePoint(Head(a)) < CodePoint(Head(b))

\* Python: sorted(S) for a set of str
RECURSIVE Sorted(_)
Sorted(S) ==
    IF S = {} THEN <<>>
    ELSE LET least == CHOOSE a \in S : \A b \in S \ {a} : StrLess(a, b)
         IN <<least>> \o Sorted(S \ {least})

\* Python: sep.join(parts)
RECURSIVE Join(_, _)
Join(parts, sep) ==
    IF parts = <<>> THEN <<>>
    ELSE IF Len(parts) = 1 THEN parts[1]
    ELSE parts[1] \o sep \o Join(Tail(parts), sep)

\* Python: str(n) for an int n >= 0
RECURSIVE IntToStr(_)
IntToStr(n) ==
    LET d == <<CHOOSE c \in Digits : DigitVal[c] = n % 10>>
    IN IF n < 10 THEN d ELSE IntToStr(n \div 10) \o d

\* line 189
Fonte(row) ==
    row.ARQUIVO_EXCEL \o <<" ", "|", " ">> \o row.ABA \o <<" ", "|", " ", "T">>
    \o IntToStr(row.BLOCO_TABELA)

\* lines 169-170
ConsEnter == [agg |-> EmptyDict, order |-> <<>>, pos |-> 0]

\* line 173
ConsKey(row) == Strip(row.DESCRICAO)

\* lines 177-186: the record of a description seen for the first time
ConsSeed(row) ==
    [COD_BK |-> row.COD_BK, COD_CLIENTE |-> row.COD_CLIENTE, UN |-> row.UN,
     QSUM |-> Num(0), FONTES |-> {}, DESENHOS |-> {}]

\* faulty variant: every row overrides the representative codes and unit
ConsAccumulate_overrides(d, row) ==
    [d EXCEPT !.COD_BK = row.COD_BK, !.COD_CLIENTE = row.COD_CLIENTE, !.UN = row.UN,
              !.QSUM = FloatAdd(d.QSUM, to_float_br(row.QUANT)),
              !.FONTES = d.FONTES \cup {Fonte(row)},
              !.DESENHOS = IF Strip(row.DESENHO) # <<>>
                           THEN d.DESENHOS \cup {Strip(row.DESENHO)}
                           ELSE d.DESENHOS]

\* lines 188-192
ConsAccumulate(d, row) ==
    [d EXCEPT !.QSUM = FloatAdd(d.QSUM, to_float_br(row.QUANT)),
              !.FONTES = d.FONTES \cup {Fonte(row)},
              !.DESENHOS = IF Strip(row.DESENHO) # <<>>
                           THEN d.DESENHOS \cup {Strip(row.DESENHO)}
                           ELSE d.DESENHOS]

\* faulty variant: without "if not desc: continue"
ConsRow_noSkip(c, row) ==
    LET desc == ConsKey(row)
        first == desc \notin DOMAIN c.agg
        seeded == IF first THEN (desc :> ConsSeed(row)) @@ c.agg ELSE c.agg
    IN [agg |-> [seeded EXCEPT ![desc] = ConsAccumulate(seeded[desc], row)],
        order |-> IF first THEN Append(c.order, desc) ELSE c.order,
        pos |-> c.pos + 1]

\* lines 172-192: the body of the iterrows loop for one row
ConsRow(c, row) ==
    LET desc == ConsKey(row)
        first == desc \notin DOMAIN c.agg
        seeded == IF first THEN (desc :> ConsSeed(row)) @@ c.agg ELSE c.agg
    IN IF desc = <<>> THEN [c EXCEPT !.pos = c.pos + 1]
       ELSE [agg |-> [seeded EXCEPT ![desc] = ConsAccumulate(seeded[desc], row)],
             order |-> IF first THEN Append(c.order, desc) ELSE c.order,
             pos |-> c.pos + 1]

\* lines 194-206
ConsOut(c) ==
    [n \in 1..Len(c.order) |->
        LET desc == c.order[n]
            d == c.agg[desc]
        IN [COD_BK |-> d.COD_BK,
            COD_CLIENTE |-> d.COD_CLIENTE,
            DESCRICAO |-> desc,
            QUANT |-> d.QSUM,
            UN |-> d.UN,
            DESENHOS |-> Join(Sorted(d.DESENHOS), <<";", " ">>),
            ARQUIVOS_ORIGEM |-> Join(Sorted(d.FONTES), <<";", " ">>)]]

\* the iterrows loop from the locals c on: after[n] is the locals when pos = n
ConsLoop(c, df) ==
    LET after[n \in c.pos..Len(df)] ==
            IF n = c.pos THEN c ELSE Call(LAMBDA q : ConsRow(q, df[n]), after[n - 1])
    IN after[Len(df)]

consolidate(df) == IF df = <<>> THEN df ELSE Call(ConsOut, ConsLoop(ConsEnter, df))

-----------------------------------------------------------------------------
(* Batch loop, lines 229-256.  A file is [name, opens, sheets]: opens tells   *)
(* whether pd.ExcelFile(f) succeeds; a sheet is [name, reads, grid]: reads    *)
(* tells whether pd.read_excel succeeds.  The locals are the record b: f, the *)
(* number of files the for loop has finished; s, the number of sheets         *)
(* finished in the current file; at, "file" (line 231) or "sheet" (line 234); *)
(* all_detail; errors, the file names reported by st.error (line 245);        *)
(* no_table, whether line 248 was reported.                                   *)

\* line 229
BatchEnter == [f |-> 0, s |-> 0, at |-> "file", all_detail |-> <<>>, errors |-> <<>>,
               no_table |-> FALSE]

\* line 233 succeeds
BatchOpened(b) == [b EXCEPT !.at = "sheet", !.s = 0]

\* faulty variant: the exception ends the for loop
BatchFailed_abort(b, file) ==
    [b EXCEPT !.errors = Append(b.errors, file.name), !.f = Len(files), !.at = "file"]

\* lines 244-245: the exception ends this file; the for loop goes on with the next
BatchFailed(b, file) ==
    [b EXCEPT !.errors = Append(b.errors, file.name), !.f = b.f + 1, !.at = "file"]

\* lines 235-243: one sheet read and parsed
BatchSheetDone(b, file, sheet, fb) ==
    LET detail == parse_blocks(sheet.grid, file.name, sheet.name, Strip(fb))
    IN [b EXCEPT !.all_detail = IF detail # <<>> THEN Append(b.all_detail, detail)
                                ELSE b.all_detail,
                 !.s = b.s + 1]

\* line 234 is exhausted
BatchFileDone(b) == [b EXCEPT !.f = b.f + 1, !.at = "file"]

\* line 251: pd.concat(all_detail, ignore_index=True)
RECURSIVE Concat(_)
Concat(frames) == IF frames = <<>> THEN <<>> ELSE Head(frames) \o Concat(Tail(frames))

\* line 251: .fillna(""); BLOCO_TABELA is the int column
FillNa(rows) ==
    [n \in 1..Len(rows) |->
        [c \in DOMAIN rows[n] |->
            IF c # "BLOCO_TABELA" /\ rows[n][c] = NaN THEN <<>> ELSE rows[n][c]]]

-----------------------------------------------------------------------------
(* Header cells the matcher is run on *)

cEmpty == <<>>
cItem == <<"I", "T", "E", "M">>
cCodBk == <<"C", "oacute", "d", ".", " ", "B", "K">>
cCodCliente == <<"C", "Oacute", "D", ".", " ", "C", "L", "I", "E", "N", "T", "E">>
cDescricao == <<"D", "E", "S", "C", "R", "I", "Ccedil", "Atilde", "O">>
cQuant == <<"Q", "U", "A", "N", "T", ".">>
cUn == <<"U", "N", ".">>
cCodBkCliente == <<"C", "O", "D", " ", "B", "K", "/", "C", "L", "I", "E", "N", "T", "E">>

HdrCells == {cEmpty, cItem, cCodBk, cCodCliente, cDescricao, cQuant, cUn, cCodBkCliente}

\* no text is used twice in the row
NoRepeat(r) == \A a, b \in 1..Len(r) : a # b => r[a] # r[b]

HdrVars == <<hdr_row, hdr_i, found, hdr_ret>>
ParseVars == <<df_raw, fallback_title, ps>>
ConsVars == <<df_detail, cs, df_cons>>
BatchVars == <<files, bs>>

\* the variables of the functions that are not running
HdrIdle == hdr_row = <<>> /\ hdr_i = 0 /\ found = EmptyDict /\ hdr_ret = NoMapping
ParseIdle == df_raw = <<>> /\ fallback_title = <<>> /\ ps = <<>>
ConsIdle == df_detail = <<>> /\ cs = <<>> /\ df_cons = <<>>
BatchIdle == files = <<>> /\ bs = <<>>

InitHeader ==
    /\ pc = "hdr_scan"
    /\ \E n \in 0..MaxCols : hdr_row \in [1..n -> HdrCells]
    /\ NoRepeat(hdr_row)
    /\ hdr_i = 0
    /\ found = EmptyDict
    /\ hdr_ret = NoMapping
    /\ ParseIdle /\ ConsIdle /\ BatchIdle

\* one iteration of "for i, k in enumerate(keys)"
HdrScan ==
    /\ pc = "hdr_scan"
    /\ hdr_i < Len(hdr_row)
    /\ found' = HdrScanColumn(found, hdr_row, hdr_i)
    /\ hdr_i' = hdr_i + 1
    /\ UNCHANGED <<pc, hdr_row, hdr_ret, ParseVars, ConsVars, BatchVars>>

\* the loop is over: return found or None
HdrReturn ==
    /\ pc = "hdr_scan"
    /\ hdr_i >= Len(hdr_row)
    /\ hdr_ret' = HdrResult(found)
    /\ pc' = "hdr_done"
    /\ UNCHANGED <<hdr_row, hdr_i, found, ParseVars, ConsVars, BatchVars>>

NextHeader == HdrScan \/ HdrReturn

SpecHeader == InitHeader /\ [][NextHeader]_vars

-----------------------------------------------------------------------------
(* Grids the block parser is run on: rows of seven cells, columns A..G *)

cBlankSp == <<" ", "NBSP">>
cCodBkPlain == <<"C", "O", "D", " ", "B", "K">>
cCodClientePlain == <<"C", "O", "D", " ", "C", "L", "I", "E", "N", "T", "E">>
cQtde == <<"Q", "T", "D", "E">>
cMaterial == <<"M", "A", "T", "E", "R", "I", "A", "L">>
cUnPlain == <<"U", "N">>
cParafuso == <<"P", "a", "r", "a", "f", "u", "s", "o", " ", "M", "8">>
cEscada == <<"E", "S", "C", "A", "D", "A", " ", "P", "A", "R", "A", " ",
             "D", "I", "S", "J", "U", "N", "T", "O", "R">>
cGeral == <<"G", "E", "R", "A", "L">>

\* ITEM | CÓD. BK | CÓD. CLIENTE | DESCRIÇÃO | QUANT. | UN.
rowHeader == <<cItem, cCodBk, cCodCliente, cDescricao, cQuant, cUn, cEmpty>>
\* the same table with the quantity before the description, other aliases
rowHeaderAlt == <<cItem, cCodBkPlain, cCodClientePlain, cQtde, cMaterial, cUnPlain, None>>
rowData == <<<<"1">>, <<"B", "K", "0", "1">>, <<"C", "0", "1">>, cParafuso,
             <<"3", ",", "5">>, cUnPlain, NaN>>
\* a row whose DESCRIÇÃO cell is only whitespace
rowNoDesc == <<<<"2">>, <<"B", "K", "0", "2">>, <<"C", "0", "2">>, cBlankSp,
               <<"1">>, cUnPlain, None>>
rowBlank == <<cEmpty, None, <<" ">>, cBlankSp, cEmpty, None, cEmpty>>
rowEscada == <<cEmpty, cEmpty, cEmpty, cEmpty, cEmpty, cEmpty, cEscada>>

GridRows == {rowHeader, rowHeaderAlt, rowData, rowNoDesc, rowBlank, rowEscada}
Fallbacks == {cGeral}
fonteParse == <<"a", ".", "x", "l", "s", "x">>
sheetParse == <<"P", "1">>

InitParse ==
    /\ pc = "parse_call"
    /\ \E n \in 0..MaxRows : df_raw \in [1..n -> GridRows]
    /\ fallback_title \in Fallbacks
    /\ ps = <<>>
    /\ HdrIdle /\ ConsIdle /\ BatchIdle

\* entry of parse_blocks, lines 114-120
ParseCall ==
    /\ pc = "parse_call"
    /\ ps' = ParseEnter(df_raw)
    /\ pc' = "parse"
    /\ UNCHANGED <<df_raw, fallback_title, HdrVars, ConsVars, BatchVars>>

ParseHeader ==
    /\ pc = "parse" /\ AtHeader(ps)
    /\ ps' = OuterHeader(ps, fallback_title)
    /\ UNCHANGED <<pc, df_raw, fallback_title, HdrVars, ConsVars, BatchVars>>

ParseSkip ==
    /\ pc = "parse" /\ AtSkip(ps)
    /\ ps' = OuterSkip(ps)
    /\ UNCHANGED <<pc, df_raw, fallback_title, HdrVars, ConsVars, BatchVars>>

ParseBlockEnd ==
    /\ pc = "parse" /\ (AtInnerEnd(ps) \/ AtInnerHeader(ps))
    /\ ps' = InnerBreak(ps)
    /\ UNCHANGED <<pc, df_raw, fallback_title, HdrVars, ConsVars, BatchVars>>

ParseBlank ==
    /\ pc = "parse" /\ AtInnerBlank(ps)
    /\ ps' = InnerBlank(ps)
    /\ UNCHANGED <<pc, df_raw, fallback_title, HdrVars, ConsVars, BatchVars>>

ParseData ==
    /\ pc = "parse" /\ AtInnerData(ps)
    /\ ps' = InnerData(ps, fonteParse, sheetParse)
    /\ UNCHANGED <<pc, df_raw, fallback_title, HdrVars, ConsVars, BatchVars>>

ParseReturn ==
    /\ pc = "parse" /\ AtReturn(ps)
    /\ ps' = OuterReturn(ps)
    /\ pc' = "parse_done"
    /\ UNCHANGED <<df_raw, fallback_title, HdrVars, ConsVars, BatchVars>>

NextParse ==
    \/ ParseCall \/ ParseHeader \/ ParseSkip \/ ParseBlockEnd
    \/ ParseBlank \/ ParseData \/ ParseReturn

SpecParse == InitParse /\ [][NextParse]_vars

-----------------------------------------------------------------------------
(* Detail rows the consolidator is run on *)

Descs == {<<"P">>, <<" ", "P">>, <<"Q">>, <<" ">>}
Quants == {<<"2">>, <<"1", ",", "5">>, <<"a", "b", "c">>, <<"n", "a", "n">>}
Origins ==
    {[ARQUIVO_EXCEL |-> <<"a">>, ABA |-> <<"S">>, DESENHO |-> <<"T", "1">>, BLOCO_TABELA |-> 1,
      ITEM |-> <<"1">>, COD_BK |-> <<"B", "1">>, COD_CLIENTE |-> <<"C", "1">>, UN |-> <<"U", "N">>],
     [ARQUIVO_EXCEL |-> <<"b">>, ABA |-> <<"S">>, DESENHO |-> <<>>, BLOCO_TABELA |-> 2,
      ITEM |-> <<"2">>, COD_BK |-> <<"B", "2">>, COD_CLIENTE |-> <<"C", "2">>, UN |-> <<"P", "C">>]}

DetailRows ==
    {[ARQUIVO_EXCEL |-> o.ARQUIVO_EXCEL, ABA |-> o.ABA, DESENHO |-> o.DESENHO,
      BLOCO_TABELA |-> o.BLOCO_TABELA, ITEM |-> o.ITEM, COD_BK |-> o.COD_BK,
      COD_CLIENTE |-> o.COD_CLIENTE, DESCRICAO |-> d, QUANT |-> q, UN |-> o.UN] :
        o \in Origins, d \in Descs, q \in Quants}

InitCons ==
    /\ pc = "cons_call"
    /\ \E n \in 0..MaxDetail : df_detail \in [1..n -> DetailRows]
    /\ cs = <<>>
    /\ df_cons = <<>>
    /\ HdrIdle /\ ParseIdle /\ BatchIdle

\* lines 166-170: an empty frame is returned as it is
ConsCall ==
    /\ pc = "cons_call"
    /\ IF df_detail = <<>>
       THEN pc' = "cons_done" /\ df_cons' = df_detail /\ cs' = cs
       ELSE pc' = "cons" /\ cs' = ConsEnter /\ df_cons' = df_cons
    /\ UNCHANGED <<df_detail, HdrVars, ParseVars, BatchVars>>

\* lines 173-175: a row without description is skipped
ConsSkip ==
    /\ pc = "cons" /\ cs.pos < Len(df_detail)
    /\ ConsKey(df_detail[cs.pos + 1]) = <<>>
    /\ cs' = ConsRow(cs, df_detail[cs.pos + 1])
    /\ UNCHANGED <<pc, df_detail, df_cons, HdrVars, ParseVars, BatchVars>>

\* lines 177-192: a row is added to the record of its description
ConsAdd ==
    /\ pc = "cons" /\ cs.pos < Len(df_detail)
    /\ ConsKey(df_detail[cs.pos + 1]) # <<>>
    /\ cs' = ConsRow(cs, df_detail[cs.pos + 1])
    /\ UNCHANGED <<pc, df_detail, df_cons, HdrVars, ParseVars, BatchVars>>

\* lines 194-206
ConsReturn ==
    /\ pc = "cons" /\ cs.pos >= Len(df_detail)
    /\ df_cons' = ConsOut(cs)
    /\ pc' = "cons_done"
    /\ UNCHANGED <<df_detail, cs, HdrVars, ParseVars, BatchVars>>

NextCons == ConsCall \/ ConsSkip \/ ConsAdd \/ ConsReturn

SpecCons == InitCons /\ [][NextCons]_vars

\* the block parser and the consolidator, each entered with its own inputs
SpecExtract == (InitParse \/ InitCons) /\ [][NextParse \/ NextCons]_vars

-----------------------------------------------------------------------------
(* Batches the loop is run on *)

FileName(n) == <<"f">> \o IntToStr(n) \o <<".", "x", "l", "s", "x">>
SheetName(n) == <<"P">> \o IntToStr(n)

\* a sheet with one table of one row, a sheet without a header, an unreadable sheet
SheetKinds ==
    {[reads |-> TRUE, grid |-> <<rowHeader, rowData>>],
     [reads |-> TRUE, grid |-> <<rowData, rowBlank>>],
     [reads |-> FALSE, grid |-> <<>>]}

MkSheets(kinds) ==
    [j \in 1..Len(kinds) |-> [name |-> SheetName(j), reads |-> kinds[j].reads,
                              grid |-> kinds[j].grid]]

Files(n) ==
    {[name |-> FileName(n), opens |-> FALSE, sheets |-> <<>>]}
    \cup {[name |-> FileName(n), opens |-> TRUE, sheets |-> MkSheets(kinds)] :
            kinds \in UNION {[1..k -> SheetKinds] : k \in 1..2}}

InitBatch ==
    /\ pc = "batch"
    /\ \E n \in 0..MaxFiles :
          /\ files \in [1..n -> UNION {Files(j) : j \in 1..n}]
          /\ \A j \in 1..n : files[j] \in Files(j)
    /\ bs = BatchEnter
    /\ fallback_title = <<" ">> \o cGeral
    /\ df_raw = <<>> /\ ps = <<>>
    /\ HdrIdle /\ ConsIdle

\* line 233: pd.ExcelFile(f) succeeds
BatchOpen ==
    /\ pc = "batch" /\ bs.at = "file" /\ bs.f < Len(files)
    /\ files[bs.f + 1].opens
    /\ bs' = BatchOpened(bs)
    /\ UNCHANGED <<pc, files, HdrVars, ParseVars, ConsVars>>

\* line 233: pd.ExcelFile(f) raises
BatchOpenFails ==
    /\ pc = "batch" /\ bs.at = "file" /\ bs.f < Len(files)
    /\ ~files[bs.f + 1].opens
    /\ bs' = BatchFailed(bs, files[bs.f + 1])
    /\ UNCHANGED <<pc, files, HdrVars, ParseVars, ConsVars>>

\* lines 235-243
BatchSheet ==
    /\ pc = "batch" /\ bs.at = "sheet" /\ bs.s < Len(files[bs.f + 1].sheets)
    /\ files[bs.f + 1].sheets[bs.s + 1].reads
    /\ bs' = BatchSheetDone(bs, files[bs.f + 1], files[bs.f + 1].sheets[bs.s + 1],
                            fallback_title)
    /\ UNCHANGED <<pc, files, HdrVars, ParseVars, ConsVars>>

\* line 235: pd.read_excel raises
BatchSheetFails ==
    /\ pc = "batch" /\ bs.at = "sheet" /\ bs.s < Len(files[bs.f + 1].sheets)
    /\ ~files[bs.f + 1].sheets[bs.s + 1].reads
    /\ bs' = BatchFailed(bs, files[bs.f + 1])
    /\ UNCHANGED <<pc, files, HdrVars, ParseVars, ConsVars>>

\* the sheets of the file are done
BatchNextFile ==
    /\ pc = "batch" /\ bs.at = "sheet" /\ bs.s >= Len(files[bs.f + 1].sheets)
    /\ bs' = BatchFileDone(bs)
    /\ UNCHANGED <<pc, files, HdrVars, ParseVars, ConsVars>>

\* lines 247-249: nothing was extracted
BatchNoTable ==
    /\ pc = "batch" /\ bs.at = "file" /\ bs.f >= Len(files)
    /\ bs.all_detail = <<>>
    /\ bs' = [bs EXCEPT !.no_table = TRUE]
    /\ pc' = "batch_done"
    /\ UNCHANGED <<files, HdrVars, ParseVars, ConsVars>>

\* lines 250-256: concatenate and consolidate
BatchConsolidate ==
    /\ pc = "batch" /\ bs.at = "file" /\ bs.f >= Len(files)
    /\ bs.all_detail # <<>>
    /\ df_detail' = FillNa(Concat(bs.all_detail))
    /\ df_cons' = consolidate(df_detail')
    /\ pc' = "batch_done"
    /\ UNCHANGED <<files, bs, cs, HdrVars, ParseVars>>

NextBatch ==
    \/ BatchOpen \/ BatchOpenFails \/ BatchSheet \/ BatchSheetFails
    \/ BatchNextFile \/ BatchNoTable \/ BatchConsolidate

SpecBatch == InitBatch /\ [][NextBatch]_vars

-----------------------------------------------------------------------------
(* Properties of the header matcher *)

Fields == {CANON_HEADERS[n] : n \in 1..Len(CANON_HEADERS)}

\* the cell satisfies field h: exact alias, or the field's substring fallback
Satisfies(h, cell) ==
    LET k == norm_key(cell)
    IN k # <<>> /\ (k \in HDR_KEYS[h] \/ HdrFallback(h, k))

SatisfyingCols(h, row) == {c \in 0..(Len(row) - 1) : Satisfies(h, row[c + 1])}

Leftmost(S) == CHOOSE c \in S : \A d \in S : c <= d

\* C6: looks_header_row returns a mapping exactly when each of the six fields is
\* satisfied by some column; the mapping then has all six fields, each mapped to the
\* leftmost column that satisfies it.
C6_AllOrNothingLeftmost ==
    pc = "hdr_done" =>
        /\ (hdr_ret # NoMapping) <=> (\A h \in Fields : SatisfyingCols(h, hdr_row) # {})
        /\ hdr_ret # NoMapping =>
              /\ DOMAIN hdr_ret = Fields
              /\ \A h \in Fields : hdr_ret[h] = Leftmost(SatisfyingCols(h, hdr_row))

\* a header row was accepted in which some field had two satisfying columns
C6_Witness ==
    /\ pc = "hdr_done"
    /\ hdr_ret # NoMapping
    /\ \E h \in Fields : Cardinality(SatisfyingCols(h, hdr_row)) >= 2

NonEmptyCells(row) == {c \in 1..Len(row) : norm_cell(row[c]) # <<>>}

\* C9 as stated: an accepted header maps the six fields to six pairwise distinct
\* columns, so a row with fewer than six non-empty cells is never accepted.
C9_DistinctColumns ==
    (pc = "hdr_done" /\ hdr_ret # NoMapping) =>
        /\ \A h1, h2 \in Fields : h1 # h2 => hdr_ret[h1] # hdr_ret[h2]
        /\ Cardinality(NonEmptyCells(hdr_row)) >= 6

\* C9 amended: the ITEM column and the UN. column are shared with no other field;
\* two fields share a column only when its key satisfies the substring fallback of
\* one of them; an accepted header has at least three distinct columns.
C9_SharedOnlyByFallback ==
    (pc = "hdr_done" /\ hdr_ret # NoMapping) =>
        /\ \A h \in Fields :
              /\ hdr_ret[h] \in 0..(Len(hdr_row) - 1)
              /\ norm_key(hdr_row[hdr_ret[h] + 1]) # <<>>
        /\ \A h1, h2 \in Fields :
              (h1 # h2 /\ hdr_ret[h1] = hdr_ret[h2]) =>
                  /\ {h1, h2} \cap {"ITEM", "UN."} = {}
                  /\ LET k == norm_key(hdr_row[hdr_ret[h1] + 1])
                     IN HdrFallback(h1, k) \/ HdrFallback(h2, k)
        /\ Cardinality({hdr_ret[h] : h \in Fields}) >= 3
        /\ Cardinality(NonEmptyCells(hdr_row)) >= 3

\* a row with five non-empty cells was accepted, two fields on one column
C9_Witness ==
    /\ pc = "hdr_done"
    /\ hdr_ret # NoMapping
    /\ hdr_ret["COD. BK"] = hdr_ret["COD. CLIENTE"]
    /\ Cardinality(NonEmptyCells(hdr_row)) = 5

-----------------------------------------------------------------------------
(* Properties of the block parser, stated on the grid *)

IsHdr(m, r) == looks_header_row(m[r + 1]) # NoMapping
IsBlank(m, r) == is_blank_row(m[r + 1])
RowIdx(m) == 0..(Len(m) - 1)

\* row h is the header of a block that is still open on arrival at row r: no header
\* and no pair of consecutive blank rows lies strictly between them
OpenFrom(m, h, r) ==
    /\ h < r /\ IsHdr(m, h)
    /\ \A j \in (h + 1)..(r - 1) : ~IsHdr(m, j)
    /\ \A j \in (h + 1)..(r - 2) : ~(IsBlank(m, j) /\ IsBlank(m, j + 1))
Open(m, r) == \E h \in RowIdx(m) : OpenFrom(m, h, r)
HeaderOf(m, r) == CHOOSE h \in RowIdx(m) : OpenFrom(m, h, r)

\* the DESCRIÇÃO cell of row r under the mapping of its block's header
DescAt(m, r) == m[r + 1][looks_header_row(m[HeaderOf(m, r) + 1])["DESCRICAO"] + 1]

\* a row the parser must materialise: a non-blank, non-header row of an open block
\* with a non-empty description
IsDetail(m, r) ==
    Open(m, r) /\ ~IsHdr(m, r) /\ ~IsBlank(m, r) /\ norm_cell(DescAt(m, r)) # <<>>

SrcSet(p) == {p.src_rows[k] : k \in 1..Len(p.src_rows)}
BlocoOf(p, r) == p.rows_out[CHOOSE k \in 1..Len(p.src_rows) : p.src_rows[k] = r].BLOCO_TABELA
HeadersUpTo(m, r) == Cardinality({h \in RowIdx(m) : h <= r /\ IsHdr(m, h)})

\* the parser has just matched the header at row ps.i - 1 and resolved the title
JustEntered ==
    pc = "parse" /\ ps.at = "inner" /\ ps.i >= 1 /\ IsHdr(ps.matrix, ps.i - 1)
WindowRows(m, h) == {r \in RowIdx(m) : h - 3 <= r /\ r <= h + 3}
WindowCells(m, h) == UNION {{m[r + 1][c] : c \in 1..Len(m[r + 1])} : r \in WindowRows(m, h)}

\* C1: when "ESCADA PARA DISJUNTOR" lies within 3 rows of the header and the window
\* holds no longer title candidate, it is the title of the block.
C1_EscadaIsTitle ==
    JustEntered =>
        LET cells == WindowCells(ps.matrix, ps.i - 1)
        IN (cEscada \in cells
            /\ \A t \in cells : is_candidate_title(t) => Len(t) <= Len(cEscada))
           => ps.title = cEscada

\* C2: no detail row comes from behind a pair of consecutive blank rows until a new
\* header is matched; a row that follows a single blank row of an open block is
\* materialised, with the block number of the detail row before the blank row.
C2_BlankPairEndsBlock ==
    pc = "parse_done" =>
        LET m == ps.matrix
        IN /\ \A r \in SrcSet(ps) : Open(m, r)
           /\ \A r \in RowIdx(m) :
                 (r >= 2 /\ IsBlank(m, r - 1) /\ ~IsBlank(m, r - 2) /\ Open(m, r - 1)
                  /\ ~IsBlank(m, r) /\ ~IsHdr(m, r) /\ norm_cell(DescAt(m, r)) # <<>>)
                 => /\ r \in SrcSet(ps)
                    /\ (r - 2) \in SrcSet(ps) => BlocoOf(ps, r) = BlocoOf(ps, r - 2)

\* a data row behind a blank pair was left out
C2_Witness ==
    /\ pc = "parse_done"
    /\ \E h, r \in RowIdx(ps.matrix) :
          /\ OpenFrom(ps.matrix, h, r - 2)
          /\ IsBlank(ps.matrix, r - 2) /\ IsBlank(ps.matrix, r - 1)
          /\ df_raw[r + 1] = rowData
          /\ r \notin SrcSet(ps)

\* C3: in the rows parse_blocks returns, a header row is never a detail row, and
\* each header row adds one to the block counter, so a detail row's block number is
\* the number of header rows above it.
C3_BlockNumberCountsHeaders ==
    pc = "parse_done" =>
        /\ \A k \in 1..Len(ps.rows_out) :
              /\ ~IsHdr(ps.matrix, ps.src_rows[k])
              /\ ps.rows_out[k].BLOCO_TABELA = HeadersUpTo(ps.matrix, ps.src_rows[k])
        /\ ps.bloco_n = HeadersUpTo(ps.matrix, Len(ps.matrix))

\* a second header met inside an open block, with detail rows on both sides
C3_Witness ==
    /\ pc = "parse_done"
    /\ \E a, b \in 1..Len(ps.rows_out) :
          /\ ps.rows_out[a].BLOCO_TABELA = 1 /\ ps.rows_out[b].BLOCO_TABELA = 2
          /\ ps.src_rows[b] = ps.src_rows[a] + 2
          /\ IsHdr(ps.matrix, ps.src_rows[a] + 1)

\* C10: the title of a block is never the text of a cell of its own header row that
\* serves one of the six fields; is_candidate_title rejects every such cell.
C10_TitleNotHeaderCell ==
    JustEntered =>
        \A h \in Fields :
            LET cell == ps.matrix[ps.i][ps.mapping[h] + 1]
            IN ~is_candidate_title(cell) /\ ps.title # cell

-----------------------------------------------------------------------------
(* Properties of the consolidator, stated on its input rows *)

HasDesc(row) == Strip(row.DESCRICAO) # <<>>

\* the first input row with the description key
FirstRow(df, key) ==
    CHOOSE n \in 1..Len(df) :
        /\ Strip(df[n].DESCRICAO) = key
        /\ \A m \in 1..(n - 1) : Strip(df[m].DESCRICAO) # key

\* the sum, in input order, of the parsed quantities of rows 1..n with the key
RECURSIVE SumQuant(_, _, _)
SumQuant(df, key, n) ==
    IF n = 0 THEN Num(0)
    ELSE IF Strip(df[n].DESCRICAO) = key
         THEN FloatAdd(SumQuant(df, key, n - 1), to_float_br(df[n].QUANT))
         ELSE SumQuant(df, key, n - 1)

\* C4: no materialised detail row has an empty DESCRIÇÃO, and a row whose trimmed
\* DESCRIÇÃO is empty gives the consolidator no record, quantity, title or provenance:
\* the result is that of the input without those rows.
C4_NoEmptyDescription ==
    /\ pc \in {"parse", "parse_done"} =>
          \A k \in 1..Len(ps.rows_out) :
              /\ norm_cell(ps.rows_out[k].DESCRICAO) # <<>>
              /\ Strip(ps.rows_out[k].DESCRICAO) # <<>>
    /\ pc = "cons" =>
          /\ <<>> \notin DOMAIN cs.agg
          /\ cs.agg = ConsLoop(ConsEnter, SelectSeq(SubSeq(df_detail, 1, cs.pos), HasDesc)).agg
    /\ pc = "cons_done" =>
          /\ \A k \in 1..Len(df_cons) : df_cons[k].DESCRICAO # <<>>
          /\ df_cons = consolidate(SelectSeq(df_detail, HasDesc))

\* a non-blank row of an open block was dropped for its empty description
C4_Witness ==
    /\ pc = "parse_done"
    /\ \E r \in RowIdx(ps.matrix) :
          /\ Open(ps.matrix, r) /\ ~IsHdr(ps.matrix, r) /\ ~IsBlank(ps.matrix, r)
          /\ norm_cell(DescAt(ps.matrix, r)) = <<>>
          /\ r \notin SrcSet(ps)
    /\ ps.rows_out # <<>>

\* C5: one record per distinct trimmed non-empty description, in first-occurrence
\* order; its quantity is the sum of the parsed quantities of the rows with that
\* description, its codes and unit are those of the first such row.
C5_OneRecordPerDescription ==
    pc = "cons_done" =>
        /\ {df_cons[k].DESCRICAO : k \in 1..Len(df_cons)}
              = {Strip(df_detail[n].DESCRICAO) : n \in 1..Len(df_detail)} \ {<<>>}
        /\ \A a, b \in 1..Len(df_cons) :
              a < b => FirstRow(df_detail, df_cons[a].DESCRICAO)
                          < FirstRow(df_detail, df_cons[b].DESCRICAO)
        /\ \A k \in 1..Len(df_cons) :
              LET key == df_cons[k].DESCRICAO
                  first == df_detail[FirstRow(df_detail, key)]
              IN /\ df_cons[k].QUANT = SumQuant(df_detail, key, Len(df_detail))
                 /\ df_cons[k].COD_BK = first.COD_BK
                 /\ df_cons[k].COD_CLIENTE = first.COD_CLIENTE
                 /\ df_cons[k].UN = first.UN

\* "2" and "1,5" of one description from two blocks: one record, 3.5, two tokens
C5_Witness ==
    /\ pc = "cons_done"
    /\ Len(df_detail) = 2 /\ Len(df_cons) = 1
    /\ df_detail[1].QUANT = <<"2">> /\ df_detail[2].QUANT = <<"1", ",", "5">>
    /\ df_detail[1].COD_BK # df_detail[2].COD_BK
    /\ df_cons[1].QUANT = Num(350)
    /\ df_cons[1].ARQUIVOS_ORIGEM =
          <<"a", " ", "|", " ", "S", " ", "|", " ", "T", "1", ";", " ",
            "b", " ", "|", " ", "S", " ", "|", " ", "T", "2">>

\* the text is a number in the locale's notation: digits, at most one decimal
\* separator, an optional sign
WellFormedNumber(q) ==
    LET s == LocaleText(norm_cell(q))
        body == IF s # <<>> /\ Head(s) \in {"+", "-"} THEN Tail(s) ELSE s
    IN IsDecimal(body)

NumberValue(q) ==
    LET s == LocaleText(norm_cell(q))
    IN IF Head(s) = "-" THEN 0 - DecimalVal(Tail(s))
       ELSE IF Head(s) = "+" THEN DecimalVal(Tail(s))
       ELSE DecimalVal(s)

RECURSIVE SumWellFormed(_, _, _)
SumWellFormed(df, key, n) ==
    IF n = 0 THEN 0
    ELSE SumWellFormed(df, key, n - 1)
         + (IF Strip(df[n].DESCRICAO) = key /\ WellFormedNumber(df[n].QUANT)
            THEN NumberValue(df[n].QUANT) ELSE 0)

\* C8: to_float_br gives 0.0 for every text that is not a well-formed number, so a
\* description's sum is the total of its well-formed quantities.
C8_MalformedCountsZero ==
    pc = "cons_done" =>
        /\ \A n \in 1..Len(df_detail) :
              ~WellFormedNumber(df_detail[n].QUANT) => to_float_br(df_detail[n].QUANT) = Num(0)
        /\ \A k \in 1..Len(df_cons) :
              df_cons[k].QUANT = Num(SumWellFormed(df_detail, df_cons[k].DESCRICAO, Len(df_detail)))

-----------------------------------------------------------------------------
(* The batch loop *)

\* the file raises: it does not open or one of its sheets cannot be read
Fails(file) ==
    ~file.opens \/ \E j \in 1..Len(file.sheets) : ~file.sheets[j].reads

\* the sheets of the file that are read before the file raises, if it does
SheetsRead(file) ==
    IF ~file.opens THEN <<>>
    ELSE SubSeq(file.sheets, 1,
                CHOOSE n \in 0..Len(file.sheets) :
                    /\ \A j \in 1..n : file.sheets[j].reads
                    /\ n < Len(file.sheets) => ~file.sheets[n + 1].reads)

\* the rows parse_blocks extracts from the sheets of the file that are read
RowsOf(file) ==
    Concat([j \in 1..Len(SheetsRead(file)) |->
               parse_blocks(SheetsRead(file)[j].grid, file.name, SheetsRead(file)[j].name,
                            Strip(fallback_title))])

\* C7: when the batch is over, every file has been taken by the loop, the files
\* reported as failed are exactly the files that raised, each once and in upload
\* order, and the detailed result handed to consolidate holds, in upload order, the
\* rows extracted from every sheet that was read, those of the files after a failed
\* one included; the consolidated result is consolidate of that detailed result
C7_FailureIsolatedPerFile ==
    pc = "batch_done" =>
        /\ bs.f = Len(files)
        /\ bs.errors = [j \in 1..Len(SelectSeq(files, Fails)) |-> SelectSeq(files, Fails)[j].name]
        /\ df_detail = Concat([j \in 1..Len(files) |-> RowsOf(files[j])])
        /\ bs.no_table <=> (df_detail = <<>>)
        /\ df_detail # <<>> => df_cons = consolidate(df_detail)

\* the first file raises after one of its sheets was read, the second file is read
\* whole, and the detailed result holds rows of both
C7_Witness ==
    /\ pc = "batch_done"
    /\ Len(files) = 2
    /\ files[1].opens /\ Fails(files[1]) /\ RowsOf(files[1]) # <<>>
    /\ ~Fails(files[2]) /\ RowsOf(files[2]) # <<>>
    /\ bs.errors = <<files[1].name>>
    /\ \E n \in 1..Len(df_detail) : df_detail[n].ARQUIVO_EXCEL = files[2].name
    /\ \E n \in 1..Len(df_detail) : df_detail[n].ARQUIVO_EXCEL = files[1].name

====
